---- MODULE Spec2Model ----
(***************************************************************************)
(* Hazard pointers of conc (src/conc/src/hazard.rs): the atomic slot and   *)
(* its sentinel encoding, the Writer and Reader handles over a heap        *)
(* Hazard, and the threads that call them.  Every load and store of the    *)
(* slot is one atomic step; what a store's ordering publishes and what a   *)
(* load's ordering acquires is kept as views of the threads' other writes. *)
(***************************************************************************)
EXTENDS Integers, Sequences, FiniteSets, TLC

\* ------------------------------------------------------------- bounds
MaxPairs == 1           \* pairs create() makes in a run of Spec
MaxHazards == 3         \* hazards the heap can hold (the cycles of Cycles)
SpinBound == 2          \* the debug spin limit (100_000_000 in the code), scaled
MaxWrites == 1          \* writes to other memory a thread makes in a run of PubSpec

\* ---------------------------------------------------------- addresses
\* The addresses of the three statics (distinct objects, distinct addresses).
BLOCKED == 2
FREE == 3
DEAD == 4
NULL == 0               \* ptr::null()
LOW == 1                \* 0x1 as *const u8

Sentinels == {BLOCKED, FREE, DEAD}
Addr == {NULL, LOW} \cup Sentinels

Threads == {"A", "B"}
Hazards == 1..MaxHazards

\* ------------------------------------------------------------- State
Free == [tag |-> "Free", ptr |-> NULL]
Dead == [tag |-> "Dead", ptr |-> NULL]
Protect(p) == [tag |-> "Protect", ptr |-> p]
State == {Free, Dead} \cup {Protect(p) : p \in Addr}

\* What a call returned that is not a State.
Unit == [tag |-> "Unit", ptr |-> NULL]
RetTrue == [tag |-> "True", ptr |-> NULL]
RetFalse == [tag |-> "False", ptr |-> NULL]
\* get's loop goes round again.
Spin == [tag |-> "Spin", ptr |-> NULL]

VARIABLES
    build,      \* "debug" (debug_assert! compiled in) or "release"
    alloc,      \* alloc[h]: "unalloc", "live" (Box::into_raw) or "freed" (Box::from_raw)
    slot,       \* slot[h]: Hazard.ptr, an address
    writers,    \* writers[t][h]: the Writer handles to h that thread t owns
    cache,      \* cache[t]: the Writers in t's thread-local cache
    rlive,      \* rlive[h]: the live Reader handles to h
    tpc,        \* tpc[t]: "run", "get", "destroy", "free" or "done"
    top,        \* top[t]: the hazard of the call t is in (0: none)
    spins,      \* spins[t]: get's local counter
    tret,       \* tret[t]: what t's last call returned
    panicking,  \* panicking[t]: thread::panicking()
    fatal,      \* fatal[h]: the panics raised by calls on h's Reader
    aborted,    \* a panic while panicking has aborted the process
    lastStore,  \* history: the last store to slot[h]
    killed,     \* history: Writer::kill has run on h
    dropIn,     \* history: where Reader::drop ran for h
    quiet,      \* history: t's get began with the last storing thread finished
    view,       \* view[t][w]: how many of w's other writes t is sure to observe
    msg         \* msg[h]: what the store that wrote slot[h] released (rel), and
                \* history: the writes its thread had made by then (at)

vars == <<build, alloc, slot, writers, cache, rlive, tpc, top, spins, tret,
          panicking, fatal, aborted, lastStore, killed, dropIn, quiet, view, msg>>

\* ---------------------------------------------------- atomic::Ordering
\* The orderings the slot's stores and loads are made with.
Hazard_block_order == "Release"

Hazard_is_blocked_order == "Acquire"

\* Mutant: set publishes with a relaxed store.
Hazard_set_order_relaxed == "Relaxed"

Hazard_set_order == "Release"

\* Mutant: get reads with a relaxed load.
Hazard_get_order_relaxed == "Relaxed"

Hazard_get_order == "Acquire"

NoView == [w \in Threads |-> 0]

\* What a store with ordering ord releases of its thread's view v.
Released(ord, v) == IF ord = "Release" THEN v ELSE NoView

\* The view v of a thread after a load with ordering ord of a value
\* released with view r.
Acquired(ord, v, r) ==
    IF ord = "Acquire"
        THEN [w \in Threads |-> IF r[w] > v[w] THEN r[w] ELSE v[w]]
        ELSE v

\* ------------------------------------------------------------ Hazard
\* Mutant: a new hazard starts out free.
Hazard_blocked_as_free == FREE

Hazard_blocked == BLOCKED

\* Mutant: block stores FREE's address.
Hazard_block_as_free == FREE

Hazard_block == BLOCKED

Hazard_is_blocked(p) == p = BLOCKED

\* Mutant: Dead is encoded with FREE's address.
Hazard_set_dead_as_free(new) ==
    CASE new.tag = "Free" -> FREE
      [] new.tag = "Dead" -> FREE
      [] new.tag = "Protect" -> new.ptr

Hazard_set(new) ==
    CASE new.tag = "Free" -> FREE
      [] new.tag = "Dead" -> DEAD
      [] new.tag = "Protect" -> new.ptr

\* Mutant: the null pointer is taken for "protects nothing".
Hazard_get_null_is_free(p) ==
    IF p = BLOCKED THEN Spin
    ELSE IF p = FREE \/ p = NULL THEN Free
    ELSE IF p = DEAD THEN Dead
    ELSE Protect(p)

\* Mutant: a blocked slot is decoded instead of spun on.
Hazard_get_no_spin(p) ==
    IF p = FREE THEN Free
    ELSE IF p = DEAD THEN Dead
    ELSE Protect(p)

\* Mutant: the FREE branch returns Dead.
Hazard_get_free_is_dead(p) ==
    IF p = BLOCKED THEN Spin
    ELSE IF p = FREE THEN Dead
    ELSE IF p = DEAD THEN Dead
    ELSE Protect(p)

\* Mutant: the loop spins on FREE as well.
Hazard_get_free_spins(p) ==
    IF p = BLOCKED \/ p = FREE THEN Spin
    ELSE IF p = DEAD THEN Dead
    ELSE Protect(p)

\* One round of get's loop on the loaded pointer.
Hazard_get(p) ==
    IF p = BLOCKED THEN Spin
    ELSE IF p = FREE THEN Free
    ELSE IF p = DEAD THEN Dead
    ELSE Protect(p)

\* ------------------------------------------------------------- local
\* local::free_hazard: the thread-local cache takes the Writer.
free_hazard(c, h) == Append(c, h)

\* -------------------------------------------------------------- Init
NoStore == [op |-> "none", s |-> Unit, by |-> "none"]

Init ==
    /\ build \in {"debug", "release"}
    /\ alloc = [h \in Hazards |-> "unalloc"]
    /\ slot = [h \in Hazards |-> NULL]
    /\ writers = [t \in Threads |-> [h \in Hazards |-> 0]]
    /\ cache = [t \in Threads |-> <<>>]
    /\ rlive = [h \in Hazards |-> 0]
    /\ tpc = [t \in Threads |-> "run"]
    /\ top = [t \in Threads |-> 0]
    /\ spins = [t \in Threads |-> 0]
    /\ tret = [t \in Threads |-> Unit]
    /\ panicking = [t \in Threads |-> FALSE]
    /\ fatal = [h \in Hazards |-> {}]
    /\ aborted = FALSE
    /\ lastStore = [h \in Hazards |-> NoStore]
    /\ killed = [h \in Hazards |-> FALSE]
    /\ dropIn = [h \in Hazards |-> "none"]
    /\ quiet = [t \in Threads |-> FALSE]
    /\ view = [t \in Threads |-> NoView]
    /\ msg = [h \in Hazards |-> [rel |-> NoView, at |-> 0]]

\* ----------------------------------------------------------- helpers
\* Thread t is between calls and not unwinding.
CanRun(t) == ~aborted /\ tpc[t] = "run" /\ ~panicking[t]

\* Some thread is inside get or destroy on h's Reader.
InCall(h) == \E t \in Threads : tpc[t] \in {"get", "destroy", "free"} /\ top[t] = h

\* Some thread is inside destroy on h's Reader, which was moved into it.
InDestroy(h) == \E t \in Threads : tpc[t] \in {"destroy", "free"} /\ top[t] = h

\* ptr.store(p, ..) on hazard h by thread t, with block's ordering or set's.
Store(t, h, p, op, s) ==
    /\ slot' = [slot EXCEPT ![h] = p]
    /\ lastStore' = [lastStore EXCEPT ![h] = [op |-> op, s |-> s, by |-> t]]
    /\ msg' = [msg EXCEPT ![h] =
                  [rel |-> Released(IF op = "block" THEN Hazard_block_order
                                                   ELSE Hazard_set_order, view[t]),
                   at |-> view[t][t]]]

\* ptr.load(ord) of hazard h by thread t.
Load(t, h, ord) ==
    view' = [view EXCEPT ![t] = Acquired(ord, @, msg[h].rel)]

\* Thread t's call returns r.
Returns(t, r) ==
    /\ tret' = [tret EXCEPT ![t] = r]
    /\ quiet' = [quiet EXCEPT ![t] = quiet[t] /\ r \in State]

\* The thread that last stored to h is t itself or has finished.
WriterFinished(t, h) ==
    /\ lastStore[h].by \in Threads
    /\ lastStore[h].by = t \/ tpc[lastStore[h].by] = "done"

\* ------------------------------------------------------------ create
\* create(), while fewer than n hazards have been allocated.
create_within(t, n) ==
    /\ CanRun(t)
    /\ Cardinality({g \in Hazards : alloc[g] # "unalloc"}) < n
    /\ \E h \in Hazards :
        /\ alloc[h] = "unalloc"
        /\ \A g \in Hazards : g < h => alloc[g] # "unalloc"
        /\ alloc' = [alloc EXCEPT ![h] = "live"]
        /\ slot' = [slot EXCEPT ![h] = Hazard_blocked]
        /\ lastStore' = [lastStore EXCEPT ![h] =
                            [op |-> "init", s |-> Unit, by |-> t]]
        /\ writers' = [writers EXCEPT ![t][h] = @ + 1]
        /\ rlive' = [rlive EXCEPT ![h] = @ + 1]
    /\ Returns(t, Unit)
    /\ UNCHANGED <<view, msg, build, cache, tpc, top, spins, panicking, fatal, aborted,
                   killed, dropIn>>

create(t) == create_within(t, MaxPairs)

\* ---------------------------------------------- Writer (Deref to Hazard)
Writer_block(t, h) ==
    /\ CanRun(t)
    /\ writers[t][h] > 0
    /\ Store(t, h, Hazard_block, "block", Unit)
    /\ Returns(t, Unit)
    /\ UNCHANGED <<view, build, alloc, writers, cache, rlive, tpc, top, spins, panicking,
                   fatal, aborted, killed, dropIn>>

Writer_set(t, h, new) ==
    /\ CanRun(t)
    /\ writers[t][h] > 0
    /\ Store(t, h, Hazard_set(new), "set", new)
    /\ Returns(t, Unit)
    /\ UNCHANGED <<view, build, alloc, writers, cache, rlive, tpc, top, spins, panicking,
                   fatal, aborted, killed, dropIn>>

\* A load of freed storage may give anything.
Writer_is_blocked(t, h) ==
    /\ CanRun(t)
    /\ writers[t][h] > 0
    /\ IF alloc[h] = "freed"
          THEN \E r \in {RetTrue, RetFalse} : Returns(t, r)
          ELSE Returns(t, IF Hazard_is_blocked(slot[h]) THEN RetTrue ELSE RetFalse)
    /\ Load(t, h, Hazard_is_blocked_order)
    /\ UNCHANGED <<msg, build, alloc, slot, writers, cache, rlive, tpc, top, spins, panicking,
                   fatal, aborted, lastStore, killed, dropIn>>

\* Mutant: kill without mem::forget, so Drop for Writer runs as well.
Writer_kill_drops(t, h) ==
    /\ CanRun(t)
    /\ writers[t][h] > 0
    /\ Store(t, h, Hazard_set(Dead), "kill", Dead)
    /\ writers' = [writers EXCEPT ![t][h] = @ - 1]
    /\ cache' = [cache EXCEPT ![t] = free_hazard(@, h)]
    /\ killed' = [killed EXCEPT ![h] = TRUE]
    /\ Returns(t, Unit)
    /\ UNCHANGED <<view, build, alloc, rlive, tpc, top, spins, panicking,
                   fatal, aborted, dropIn>>

Writer_kill(t, h) ==
    /\ CanRun(t)
    /\ writers[t][h] > 0
    /\ Store(t, h, Hazard_set(Dead), "kill", Dead)
    /\ writers' = [writers EXCEPT ![t][h] = @ - 1]
    /\ killed' = [killed EXCEPT ![h] = TRUE]
    /\ Returns(t, Unit)
    /\ UNCHANGED <<view, build, alloc, cache, rlive, tpc, top, spins, panicking,
                   fatal, aborted, dropIn>>

\* Mutant: Drop for Writer without the thread::panicking() branch.
Writer_drop_always_caches(t, h) ==
    /\ ~aborted
    /\ tpc[t] = "run"
    /\ writers[t][h] > 0
    /\ writers' = [writers EXCEPT ![t][h] = @ - 1]
    /\ cache' = [cache EXCEPT ![t] = free_hazard(@, h)]
    /\ Returns(t, Unit)
    /\ UNCHANGED <<view, msg, build, alloc, slot, lastStore, rlive, tpc, top, spins, panicking,
                   fatal, aborted, killed, dropIn>>

\* Mutant: Drop for Writer always sets Dead (the alternative the code's
\* implementation note rejects).
Writer_drop_always_dead(t, h) ==
    /\ ~aborted
    /\ tpc[t] = "run"
    /\ writers[t][h] > 0
    /\ writers' = [writers EXCEPT ![t][h] = @ - 1]
    /\ Store(t, h, Hazard_set(Dead), "unwind", Dead)
    /\ Returns(t, Unit)
    /\ UNCHANGED <<view, build, alloc, cache, rlive, tpc, top, spins, panicking,
                   fatal, aborted, killed, dropIn>>

\* Mutant: the Writer built for the cache is a copy, the dropped one stays.
Writer_drop_keeps_handle(t, h) ==
    /\ ~aborted
    /\ tpc[t] = "run"
    /\ writers[t][h] > 0
    /\ Len(cache[t]) < 1
    /\ IF panicking[t]
          THEN /\ Store(t, h, Hazard_set(Dead), "unwind", Dead)
               /\ UNCHANGED cache
          ELSE /\ cache' = [cache EXCEPT ![t] = free_hazard(@, h)]
               /\ UNCHANGED <<slot, lastStore, msg>>
    /\ Returns(t, Unit)
    /\ UNCHANGED <<view, build, alloc, writers, rlive, tpc, top, spins, panicking,
                   fatal, aborted, killed, dropIn>>

\* Drop for Writer: the handle goes out of scope, also while t unwinds.
Writer_drop(t, h) ==
    /\ ~aborted
    /\ tpc[t] = "run"
    /\ writers[t][h] > 0
    /\ writers' = [writers EXCEPT ![t][h] = @ - 1]
    /\ IF panicking[t]
          THEN /\ Store(t, h, Hazard_set(Dead), "unwind", Dead)
               /\ UNCHANGED cache
          ELSE /\ cache' = [cache EXCEPT ![t] = free_hazard(@, h)]
               /\ UNCHANGED <<slot, lastStore, msg>>
    /\ Returns(t, Unit)
    /\ UNCHANGED <<view, build, alloc, rlive, tpc, top, spins, panicking,
                   fatal, aborted, killed, dropIn>>

\* local::get_hazard: the cache gives a Writer back to its thread.
get_hazard(t) ==
    /\ CanRun(t)
    /\ Len(cache[t]) > 0
    /\ LET h == cache[t][Len(cache[t])] IN
          writers' = [writers EXCEPT ![t][h] = @ + 1]
    /\ cache' = [cache EXCEPT ![t] = SubSeq(@, 1, Len(@) - 1)]
    /\ Returns(t, Unit)
    /\ UNCHANGED <<view, msg, build, alloc, slot, rlive, tpc, top, spins, panicking,
                   fatal, aborted, lastStore, killed, dropIn>>

\* ------------------------------------------------------------ Reader
\* Reader::get is called: Hazard::get starts with spins = 0.
Reader_get(t, h) ==
    /\ CanRun(t)
    /\ rlive[h] > 0
    /\ ~InDestroy(h)
    /\ tpc' = [tpc EXCEPT ![t] = "get"]
    /\ top' = [top EXCEPT ![t] = h]
    /\ spins' = [spins EXCEPT ![t] = 0]
    /\ tret' = [tret EXCEPT ![t] = Unit]
    /\ quiet' = [quiet EXCEPT ![t] = WriterFinished(t, h)]
    /\ UNCHANGED <<view, msg, build, alloc, slot, writers, cache, rlive, panicking,
                   fatal, aborted, lastStore, killed, dropIn>>

\* Mutant: the debug build's spin bound is compiled out as well.
Hazard_get_step_unbounded(t) ==
    /\ ~aborted
    /\ tpc[t] = "get"
    /\ LET h == top[t]
           r == Hazard_get(slot[h])
       IN  IF r = Spin
              THEN UNCHANGED <<tpc, top, spins, tret, quiet, panicking, fatal>>
              ELSE /\ Returns(t, r)
                   /\ tpc' = [tpc EXCEPT ![t] = "run"]
                   /\ top' = [top EXCEPT ![t] = 0]
                   /\ spins' = [spins EXCEPT ![t] = 0]
                   /\ UNCHANGED <<panicking, fatal>>
    /\ Load(t, top[t], Hazard_get_order)
    /\ UNCHANGED <<msg, build, alloc, slot, writers, cache, rlive, aborted,
                   lastStore, killed, dropIn>>

\* One round of Hazard::get's loop: load, then spin, panic or return.
Hazard_get_step(t) ==
    /\ ~aborted
    /\ tpc[t] = "get"
    /\ LET h == top[t]
           r == Hazard_get(slot[h])
       IN  IF r = Spin
              THEN IF build = "debug"
                      THEN IF spins[t] + 1 < SpinBound
                              THEN /\ spins' = [spins EXCEPT ![t] = @ + 1]
                                   /\ UNCHANGED <<tpc, top, tret, quiet, panicking, fatal>>
                              ELSE /\ fatal' = [fatal EXCEPT ![h] = @ \cup {"spin"}]
                                   /\ panicking' = [panicking EXCEPT ![t] = TRUE]
                                   /\ tpc' = [tpc EXCEPT ![t] = "run"]
                                   /\ top' = [top EXCEPT ![t] = 0]
                                   /\ spins' = [spins EXCEPT ![t] = 0]
                                   /\ UNCHANGED <<tret, quiet>>
                      ELSE UNCHANGED <<tpc, top, spins, tret, quiet, panicking, fatal>>
              ELSE /\ Returns(t, r)
                   /\ tpc' = [tpc EXCEPT ![t] = "run"]
                   /\ top' = [top EXCEPT ![t] = 0]
                   /\ spins' = [spins EXCEPT ![t] = 0]
                   /\ UNCHANGED <<panicking, fatal>>
    /\ Load(t, top[t], Hazard_get_order)
    /\ UNCHANGED <<msg, build, alloc, slot, writers, cache, rlive, aborted,
                   lastStore, killed, dropIn>>

\* Mutant: destroy without its debug assertion.
Reader_destroy_unchecked(t, h) ==
    /\ CanRun(t)
    /\ rlive[h] > 0
    /\ ~InCall(h)
    /\ tpc' = [tpc EXCEPT ![t] = "free"]
    /\ top' = [top EXCEPT ![t] = h]
    /\ spins' = [spins EXCEPT ![t] = 0]
    /\ Returns(t, Unit)
    /\ UNCHANGED <<view, msg, build, alloc, slot, writers, cache, rlive, panicking,
                   fatal, aborted, lastStore, killed, dropIn>>

\* Reader::destroy is called (self is moved in: nobody is inside a call on
\* it).  The debug build first runs the assertion's get.
Reader_destroy(t, h) ==
    /\ CanRun(t)
    /\ rlive[h] > 0
    /\ ~InCall(h)
    /\ tpc' = [tpc EXCEPT ![t] = IF build = "debug" THEN "destroy" ELSE "free"]
    /\ top' = [top EXCEPT ![t] = h]
    /\ spins' = [spins EXCEPT ![t] = 0]
    /\ Returns(t, Unit)
    /\ UNCHANGED <<view, msg, build, alloc, slot, writers, cache, rlive, panicking,
                   fatal, aborted, lastStore, killed, dropIn>>

\* Mutant: the spin counter of the assertion's get starts over at the bound.
Reader_destroy_assert_wraps(t) ==
    /\ ~aborted
    /\ tpc[t] = "destroy"
    /\ LET h == top[t]
           r == Hazard_get(slot[h])
       IN  IF r = Spin
              THEN /\ spins' = [spins EXCEPT ![t] =
                                   IF @ + 1 < SpinBound THEN @ + 1 ELSE 0]
                   /\ UNCHANGED <<tpc, rlive, panicking, fatal, aborted, dropIn>>
              ELSE IF r = Dead
                      THEN /\ tpc' = [tpc EXCEPT ![t] = "free"]
                           /\ spins' = [spins EXCEPT ![t] = 0]
                           /\ UNCHANGED <<rlive, panicking, fatal, aborted, dropIn>>
                      ELSE /\ fatal' = [fatal EXCEPT ![h] = @ \cup {"active", "drop"}]
                           /\ panicking' = [panicking EXCEPT ![t] = TRUE]
                           /\ rlive' = [rlive EXCEPT ![h] = @ - 1]
                           /\ dropIn' = [dropIn EXCEPT ![h] = "destroy"]
                           /\ aborted' = TRUE
                           /\ UNCHANGED <<tpc, spins>>
    /\ Load(t, top[t], Hazard_get_order)
    /\ UNCHANGED <<msg, build, alloc, slot, writers, cache, top, tret, quiet, lastStore, killed>>

\* One round of the get inside debug_assert!(self.get() == State::Dead).
\* A panic here unwinds destroy's frame, which still owns self: Reader::drop
\* runs and panics while panicking, and the process aborts.
Reader_destroy_assert(t) ==
    /\ ~aborted
    /\ tpc[t] = "destroy"
    /\ LET h == top[t]
           r == Hazard_get(slot[h])
       IN  IF r = Spin /\ spins[t] + 1 < SpinBound
              THEN /\ spins' = [spins EXCEPT ![t] = @ + 1]
                   /\ UNCHANGED <<tpc, rlive, panicking, fatal, aborted, dropIn>>
              ELSE IF r = Dead
                      THEN /\ tpc' = [tpc EXCEPT ![t] = "free"]
                           /\ spins' = [spins EXCEPT ![t] = 0]
                           /\ UNCHANGED <<rlive, panicking, fatal, aborted, dropIn>>
                      ELSE /\ fatal' = [fatal EXCEPT ![h] =
                                  @ \cup {IF r = Spin THEN "spin" ELSE "active", "drop"}]
                           /\ panicking' = [panicking EXCEPT ![t] = TRUE]
                           /\ rlive' = [rlive EXCEPT ![h] = @ - 1]
                           /\ dropIn' = [dropIn EXCEPT ![h] = "destroy"]
                           /\ aborted' = TRUE
                           /\ UNCHANGED <<tpc, spins>>
    /\ Load(t, top[t], Hazard_get_order)
    /\ UNCHANGED <<msg, build, alloc, slot, writers, cache, top, tret, quiet, lastStore, killed>>

\* Box::from_raw(..) and mem::forget(self).
Reader_destroy_free(t) ==
    /\ ~aborted
    /\ tpc[t] = "free"
    /\ alloc' = [alloc EXCEPT ![top[t]] = "freed"]
    /\ rlive' = [rlive EXCEPT ![top[t]] = @ - 1]
    /\ tpc' = [tpc EXCEPT ![t] = "run"]
    /\ top' = [top EXCEPT ![t] = 0]
    /\ Returns(t, Unit)
    /\ UNCHANGED <<view, msg, build, slot, writers, cache, spins, panicking, fatal, aborted,
                   lastStore, killed, dropIn>>

\* Drop for Reader: the Reader goes out of scope in thread t.
Reader_drop(t, h) ==
    /\ ~aborted
    /\ tpc[t] = "run"
    /\ rlive[h] > 0
    /\ ~InCall(h)
    /\ rlive' = [rlive EXCEPT ![h] = @ - 1]
    /\ fatal' = [fatal EXCEPT ![h] = @ \cup {"drop"}]
    /\ dropIn' = [dropIn EXCEPT ![h] = "outside"]
    /\ IF panicking[t]
          THEN aborted' = TRUE /\ UNCHANGED panicking
          ELSE panicking' = [panicking EXCEPT ![t] = TRUE] /\ UNCHANGED aborted
    /\ Returns(t, Unit)
    /\ UNCHANGED <<view, msg, build, alloc, slot, writers, cache, tpc, top, spins,
                   lastStore, killed>>

\* ----------------------------------------------------------- threads
\* Some other code of thread t panics: t starts unwinding.
Panic(t) ==
    /\ CanRun(t)
    /\ panicking' = [panicking EXCEPT ![t] = TRUE]
    /\ Returns(t, Unit)
    /\ UNCHANGED <<view, msg, build, alloc, slot, writers, cache, rlive, tpc, top, spins,
                   fatal, aborted, lastStore, killed, dropIn>>

\* Thread t ends (and can be joined) once it has released its Writers.
ThreadExit(t) ==
    /\ ~aborted
    /\ tpc[t] = "run"
    /\ \A h \in Hazards : writers[t][h] = 0
    /\ tpc' = [tpc EXCEPT ![t] = "done"]
    /\ Returns(t, Unit)
    /\ UNCHANGED <<view, msg, build, alloc, slot, writers, cache, rlive, top, spins, panicking,
                   fatal, aborted, lastStore, killed, dropIn>>

Next ==
    \E t \in Threads :
        \/ create(t)
        \/ get_hazard(t)
        \/ Hazard_get_step(t)
        \/ Reader_destroy_assert(t)
        \/ Reader_destroy_free(t)
        \/ Panic(t)
        \/ ThreadExit(t)
        \/ \E h \in Hazards :
            \/ Writer_block(t, h)
            \/ Writer_is_blocked(t, h)
            \/ Writer_kill(t, h)
            \/ Writer_drop(t, h)
            \/ Reader_get(t, h)
            \/ Reader_destroy(t, h)
            \/ Reader_drop(t, h)
            \/ \E new \in State : Writer_set(t, h, new)

Spec == Init /\ [][Next]_vars

\* A thread inside get's loop keeps being scheduled: the loop is a busy
\* wait, it never parks the thread.
FairSpec == Spec /\ \A t \in Threads : WF_vars(Hazard_get_step(t))

\* ------------------------------------------------------- publication
\* Thread t writes to other memory, such as the object it is about to
\* protect.
Data_write(t) ==
    /\ CanRun(t)
    /\ view[t][t] < MaxWrites
    /\ view' = [view EXCEPT ![t][t] = @ + 1]
    /\ UNCHANGED <<msg, build, alloc, slot, writers, cache, rlive, tpc, top, spins, tret,
                   panicking, fatal, aborted, lastStore, killed, dropIn, quiet>>

\* A pair whose Writer publishes what its thread wrote and whose Reader is
\* polled.
PubNext ==
    \E t \in Threads :
        \/ Data_write(t)
        \/ create(t)
        \/ Hazard_get_step(t)
        \/ \E h \in Hazards :
            \/ Writer_block(t, h)
            \/ Writer_is_blocked(t, h)
            \/ Reader_get(t, h)
            \/ \E new \in {Free, Dead, Protect(LOW)} : Writer_set(t, h, new)

PubSpec == Init /\ [][PubNext]_vars

\* ------------------------------------------------------------- types
TypeOK ==
    /\ build \in {"debug", "release"}
    /\ alloc \in [Hazards -> {"unalloc", "live", "freed"}]
    /\ slot \in [Hazards -> Addr]
    /\ writers \in [Threads -> [Hazards -> Nat]]
    /\ rlive \in [Hazards -> Nat]
    /\ tpc \in [Threads -> {"run", "get", "destroy", "free", "done"}]
    /\ top \in [Threads -> Hazards \cup {0}]
    /\ spins \in [Threads -> 0..SpinBound]
    /\ tret \in [Threads -> State \cup {Unit, RetTrue, RetFalse}]
    /\ panicking \in [Threads -> BOOLEAN]
    /\ fatal \in [Hazards -> SUBSET {"spin", "active", "drop"}]
    /\ aborted \in BOOLEAN
    /\ killed \in [Hazards -> BOOLEAN]
    /\ dropIn \in [Hazards -> {"none", "destroy", "outside"}]
    /\ quiet \in [Threads -> BOOLEAN]
    /\ view \in [Threads -> [Threads -> 0..MaxWrites]]
    /\ msg \in [Hazards -> [rel : [Threads -> 0..MaxWrites], at : 0..MaxWrites]]

\* ============================================================ claims
\* A State whose Protect address is none of the three sentinels.
Valid(s) == s.tag = "Protect" => s.ptr \notin Sentinels

\* The Writers to h in cache c.
Cached(c, h) == Cardinality({i \in 1..Len(c) : c[i] = h})

\* The live Writers to h, those in the caches included.
RECURSIVE LiveWriters(_, _, _, _)
LiveWriters(w, c, h, T) ==
    IF T = {} THEN 0
    ELSE LET t == CHOOSE x \in T : TRUE
         IN  w[t][h] + Cached(c[t], h) + LiveWriters(w, c, h, T \ {t})

\* C1: a get whose load follows set(s) with no store in between returns
\* exactly s, for Free, Dead and Protect of any address that is no sentinel
\* (null and 0x1 included), whatever the slot held before the set.
C1_SetGetRoundTrip ==
    [][\A t \in Threads :
          (/\ tpc[t] = "get"
           /\ Hazard_get_step(t)
           /\ lastStore[top[t]].op = "set"
           /\ Valid(lastStore[top[t]].s))
          => (tpc'[t] = "run" /\ tret'[t] = lastStore[top[t]].s)]_vars

\* get has returned Protect(null), the state last set.
C1_Witness ==
    \E t \in Threads : \E h \in Hazards :
        /\ tpc[t] = "run"
        /\ tret[t] = Protect(NULL)
        /\ lastStore[h] = [op |-> "set", s |-> Protect(NULL), by |-> t]

\* C2: a get leaves its loop with a value only on a load that saw a slot
\* other than Blocked, and the value is the state that slot encodes; on a
\* load that saw Blocked it stays in the loop (or, in the debug build, panics
\* at the spin bound) and returns nothing.  is_blocked on a Hazard nothing
\* has stored to since create is true.
C2_GetPastBlocked ==
    [][/\ \A t \in Threads :
             (tpc[t] = "get" /\ Hazard_get_step(t)) =>
                 IF slot[top[t]] = BLOCKED
                    THEN /\ tret'[t] = tret[t]
                         /\ tpc'[t] = "get" \/ (build = "debug" /\ panicking'[t])
                    ELSE /\ tpc'[t] = "run"
                         /\ tret'[t] \in State
                         /\ Hazard_set(tret'[t]) = slot[top[t]]
       /\ \A t \in Threads : \A h \in Hazards :
             (Writer_is_blocked(t, h) /\ alloc[h] = "live" /\ lastStore[h].op = "init")
                 => tret'[t] = RetTrue]_vars

\* A get has spun on a blocked slot and is still in its loop.
C2_Witness ==
    \E t \in Threads :
        /\ tpc[t] = "get"
        /\ spins[t] > 0
        /\ slot[top[t]] = BLOCKED

\* C3 as claimed: storage is deallocated only by destroy's free step, and
\* the slot holds Dead at the step that deallocates it.
C3_DeadAtDealloc ==
    [][\A h \in Hazards :
          (alloc[h] = "live" /\ alloc'[h] = "freed") =>
              /\ \E t \in Threads : top[t] = h /\ Reader_destroy_free(t)
              /\ slot[h] = DEAD]_vars

\* C3 amended: storage is deallocated only by destroy's free step, which
\* leaves every Writer and cache as it was; the debug build reaches that
\* step only from its assertion, on a load that saw Dead, and the release
\* build reaches it straight from the call.
C3_OnlyDestroyDeallocates ==
    [][/\ \A h \in Hazards :
             (alloc[h] = "live" /\ alloc'[h] = "freed") =>
                 /\ \E t \in Threads : top[t] = h /\ Reader_destroy_free(t)
                 /\ writers' = writers
                 /\ cache' = cache
       /\ \A t \in Threads :
             (tpc[t] # "free" /\ tpc'[t] = "free") =>
                 IF build = "debug"
                    THEN tpc[t] = "destroy" /\ slot[top[t]] = DEAD
                    ELSE tpc[t] = "run"]_vars

\* The debug build has deallocated a hazard whose slot holds Dead.
C3_Witness ==
    \E h \in Hazards :
        /\ build = "debug"
        /\ alloc[h] = "freed"
        /\ slot[h] = DEAD
        /\ rlive[h] = 0

\* C4 as claimed: in the debug build, when destroy's check ends on a slot
\* that holds anything but Dead, "freeing an active hazard" is raised and
\* nothing is deallocated.
C4_ActiveOnAnyNonDead ==
    [][\A t \in Threads :
          (/\ tpc[t] = "destroy"
           /\ Reader_destroy_assert(t)
           /\ slot[top[t]] # DEAD
           /\ tpc'[t] # "destroy" \/ aborted') =>
              /\ "active" \in fatal'[top[t]]
              /\ alloc' = alloc]_vars

\* C4 amended: in the debug build, when the get of destroy's assertion
\* loads Free or a Protect address, "freeing an active hazard" is raised and
\* nothing is deallocated; on Blocked it spins, and ends with the spin-bound
\* panic, not that error, once the bound is reached.
C4_ActiveOnFreeOrProtect ==
    [][\A t \in Threads :
          (tpc[t] = "destroy" /\ Reader_destroy_assert(t)) =>
              /\ slot[top[t]] \notin {DEAD, BLOCKED} =>
                    /\ "active" \in fatal'[top[t]]
                    /\ alloc' = alloc
                    /\ tpc'[t] # "free"
              /\ slot[top[t]] = BLOCKED =>
                    /\ "active" \notin fatal'[top[t]] \ fatal[top[t]]
                    /\ alloc' = alloc
                    /\ tpc'[t] # "free"
                    /\ spins[t] + 1 < SpinBound \/ "spin" \in fatal'[top[t]]]_vars

\* destroy's assertion has failed on a slot holding Free.
C4_Witness ==
    \E t \in Threads :
        /\ build = "debug"
        /\ tpc[t] = "destroy"
        /\ slot[top[t]] = FREE
        /\ "active" \in fatal[top[t]]
        /\ alloc[top[t]] = "live"

\* C5: once kill has run on a hazard, its slot holds Dead for as long as it
\* is allocated, every load of a get returns Dead, and destroy's assertion
\* passes and its free step deallocates, with no panic raised.
C5_DeadAfterKill ==
    [][\A h \in Hazards : killed[h] =>
          /\ alloc[h] = "live" => slot[h] = DEAD
          /\ \A t \in Threads :
                /\ (tpc[t] = "get" /\ top[t] = h /\ Hazard_get_step(t))
                      => (tpc'[t] = "run" /\ tret'[t] = Dead)
                /\ (tpc[t] = "destroy" /\ top[t] = h /\ Reader_destroy_assert(t))
                      => (tpc'[t] = "free" /\ fatal' = fatal /\ ~aborted')
                /\ (tpc[t] = "free" /\ top[t] = h /\ Reader_destroy_free(t))
                      => (alloc'[h] = "freed" /\ fatal' = fatal /\ ~aborted')]_vars

\* Thread t killed the Writer and then passed the assertion of destroy.
C5_Witness ==
    \E t \in Threads :
        /\ build = "debug"
        /\ tpc[t] = "free"
        /\ killed[top[t]]
        /\ lastStore[top[t]] = [op |-> "kill", s |-> Dead, by |-> t]
        /\ fatal[top[t]] = {}

\* C6: kill stores Dead, leaves every cache as it was, and leaves no live
\* Writer to the hazard, in a thread or in a cache.
C6_KillConsumes ==
    [][\A t \in Threads : \A h \in Hazards :
          Writer_kill(t, h) =>
              /\ slot'[h] = DEAD
              /\ cache' = cache
              /\ LiveWriters(writers', cache', h, Threads) = 0]_vars

\* A hazard has been killed: its slot holds Dead, no Writer to it is left
\* and no cache holds anything.
C6_Witness ==
    \E h \in Hazards :
        /\ killed[h]
        /\ lastStore[h].op = "kill"
        /\ slot[h] = DEAD
        /\ LiveWriters(writers, cache, h, Threads) = 0
        /\ \A t \in Threads : cache[t] = <<>>

\* C7: a Writer dropped while its thread unwinds sets the slot to Dead,
\* whatever it held, and is not handed to the cache.
C7_UnwindingDropKills ==
    [][\A t \in Threads : \A h \in Hazards :
          (panicking[t] /\ Writer_drop(t, h)) =>
              /\ slot'[h] = DEAD
              /\ cache' = cache
              /\ writers'[t][h] = writers[t][h] - 1]_vars

\* An unwinding thread has dropped its Writer.
C7_Witness ==
    \E h \in Hazards :
        /\ lastStore[h].op = "unwind"
        /\ lastStore[h].by \in Threads
        /\ panicking[lastStore[h].by]
        /\ slot[h] = DEAD

\* C8: a Writer dropped while its thread does not unwind adds exactly one
\* Writer to the same hazard to that thread's cache and changes no slot.
C8_NormalDropCaches ==
    [][\A t \in Threads : \A h \in Hazards :
          (~panicking[t] /\ Writer_drop(t, h)) =>
              /\ cache'[t] = Append(cache[t], h)
              /\ \A u \in Threads \ {t} : cache'[u] = cache[u]
              /\ writers'[t][h] = writers[t][h] - 1
              /\ slot' = slot]_vars

\* A Writer sits in a cache and its hazard is still Blocked.
C8_Witness ==
    \E t \in Threads :
        /\ Len(cache[t]) = 1
        /\ slot[cache[t][1]] = BLOCKED
        /\ ~panicking[t]

\* C9 as claimed: Reader::drop never runs inside destroy, and its panic is
\* raised exactly when the Reader was dropped outside destroy.
C9_DropOnlyOutsideDestroy ==
    \A h \in Hazards :
        /\ dropIn[h] # "destroy"
        /\ "drop" \in fatal[h] <=> dropIn[h] = "outside"

\* C10: a get that began after the thread of the last store had finished
\* (or on that same thread) returns the state of that store: the last set,
\* or Dead after kill or an unwinding drop.
C10_ReaderSeesLastSet ==
    [][\A t \in Threads :
          (/\ tpc[t] = "get"
           /\ quiet[t]
           /\ Hazard_get_step(t)
           /\ lastStore[top[t]].op \in {"set", "kill", "unwind"}
           /\ Valid(lastStore[top[t]].s))
          => (tpc'[t] = "run" /\ tret'[t] = lastStore[top[t]].s)]_vars

\* A get that began after the storing thread had finished returned Dead.
C10_Witness ==
    \E t \in Threads : \E h \in Hazards :
        /\ tpc[t] = "run"
        /\ quiet[t]
        /\ tret[t] = Dead
        /\ lastStore[h].op = "set"
        /\ lastStore[h].by \in Threads \ {t}
        /\ tpc[lastStore[h].by] = "done"

\* C11: create() allocates one new hazard and returns one Writer and one
\* Reader to it, and that hazard's slot is Blocked in every state in which
\* nothing but create and block has stored to it, that is, until the first
\* set (kill and the unwinding drop are sets of Dead).
C11_BlockedUntilFirstSet ==
    [][/\ \A h \in Hazards :
             /\ lastStore[h].op \in {"init", "block"} => slot[h] = BLOCKED
             /\ lastStore'[h].op \in {"init", "block"} => slot'[h] = BLOCKED
       /\ \A t \in Threads :
             create(t) =>
                 \E h \in Hazards :
                     /\ alloc[h] = "unalloc"
                     /\ alloc' = [alloc EXCEPT ![h] = "live"]
                     /\ slot'[h] = BLOCKED
                     /\ writers' = [writers EXCEPT ![t][h] = 1]
                     /\ rlive' = [rlive EXCEPT ![h] = 1]
                     /\ LiveWriters(writers', cache', h, Threads) = 1]_vars

\* Before any store, the Writer's is_blocked returned true while a get of
\* the pair's Reader was spinning.
C11_Witness ==
    \E t \in Threads : \E u \in Threads \ {t} : \E h \in Hazards :
        /\ lastStore[h].op = "init"
        /\ writers[t][h] = 1
        /\ rlive[h] = 1
        /\ tret[t] = RetTrue
        /\ tpc[u] = "get" /\ top[u] = h
        /\ slot[h] = BLOCKED

\* ------------------------------------------------------------ cycles
\* The loop of tests::drop, run by each thread on its own pairs: create,
\* set(Dead), destroy, and the Writer released at the end of the iteration.
Cycle_create(t) ==
    /\ \A h \in Hazards : writers[t][h] = 0
    /\ create_within(t, MaxHazards)

Cycle_set(t, h) ==
    /\ lastStore[h].op = "init"
    /\ Writer_set(t, h, Dead)

Cycle_destroy(t, h) ==
    /\ writers[t][h] > 0
    /\ lastStore[h].op = "set"
    /\ Reader_destroy(t, h)

Cycle_release(t, h) ==
    /\ alloc[h] = "freed"
    /\ Writer_drop(t, h)

CyclesNext ==
    \E t \in Threads :
        \/ Cycle_create(t)
        \/ Reader_destroy_assert(t)
        \/ Reader_destroy_free(t)
        \/ \E h \in Hazards :
            \/ Cycle_set(t, h)
            \/ Cycle_destroy(t, h)
            \/ Cycle_release(t, h)

Cycles == Init /\ [][CyclesNext]_vars

\* C12: over the cycles create, set(Dead), destroy, release of the Writer,
\* no panic is raised, every step that deallocates frees a live hazard and
\* a freed hazard stays freed (each is deallocated exactly once), and once
\* a cycle's Writer is released its hazard is deallocated and has no Reader.
C12_CyclesFreeEachHazardOnce ==
    [][/\ ~aborted'
       /\ \A t \in Threads : ~panicking'[t]
       /\ \A h \in Hazards :
             /\ fatal'[h] = {}
             /\ \A t \in Threads :
                   (tpc[t] = "free" /\ top[t] = h /\ Reader_destroy_free(t))
                       => (alloc[h] = "live" /\ alloc'[h] = "freed")
             /\ alloc[h] = "freed" => alloc'[h] = "freed"
             /\ (alloc'[h] # "unalloc" /\ \A t \in Threads : writers'[t][h] = 0)
                   => (alloc'[h] = "freed" /\ rlive'[h] = 0)]_vars

\* Two cycles have ended: two hazards are deallocated, their Writers released.
C12_Witness ==
    Cardinality({h \in Hazards :
                    /\ alloc[h] = "freed"
                    /\ \A t \in Threads : writers[t][h] = 0}) >= 2

\* C13: in the debug build a get whose hazard stays Blocked ends with the
\* spin-bound panic, raised by the round in which the spin counter reaches
\* SpinBound and by no earlier one; in the release build a round that loads
\* Blocked leaves the thread inside get, so the get does not return while
\* the slot stays Blocked.
C13_SpinBound ==
    /\ \A t \in Threads : \A h \in Hazards :
          (build = "debug" /\ tpc[t] = "get" /\ top[t] = h)
              ~> \/ slot[h] # BLOCKED
                 \/ aborted
                 \/ (panicking[t] /\ tpc[t] = "run" /\ "spin" \in fatal[h])
    /\ [][\A t \in Threads :
             /\ (Hazard_get_step(t) /\ panicking'[t])
                   => /\ build = "debug"
                      /\ slot[top[t]] = BLOCKED
                      /\ spins[t] + 1 = SpinBound
                      /\ "spin" \in fatal'[top[t]]
             /\ (build = "release" /\ tpc[t] = "get" /\ slot[top[t]] = BLOCKED)
                   => (tpc'[t] = "get" /\ top'[t] = top[t] /\ ~panicking'[t])]_vars

\* A debug get has panicked on a hazard that has been Blocked since create.
C13_Witness ==
    \E t \in Threads : \E h \in Hazards :
        /\ build = "debug" /\ panicking[t] /\ tpc[t] = "run"
        /\ "spin" \in fatal[h] /\ lastStore[h].op = "init"
        /\ slot[h] = BLOCKED /\ ~aborted

\* C14: in every reachable state each hazard has at most one live Writer,
\* the Writers held by the thread-local caches counted, and at most one
\* live Reader.
C14_OneWriterOneReader ==
    \A h \in Hazards :
        /\ LiveWriters(writers, cache, h, Threads) <= 1
        /\ rlive[h] <= 1

\* The one Writer of a hazard sits in a cache while its Reader is live.
C14_Witness ==
    \E t \in Threads : \E h \in Hazards :
        /\ Cached(cache[t], h) = 1
        /\ LiveWriters(writers, cache, h, Threads) = 1
        /\ rlive[h] = 1
        /\ alloc[h] = "live"

\* C15 as claimed: the slot never moves directly from one of Free and
\* Protect(a) to a different one of them; Blocked always comes in between.
C15_OnlyThroughBlocked ==
    [][\A h \in Hazards :
          (slot[h] \notin {BLOCKED, DEAD} /\ slot'[h] \notin {BLOCKED, DEAD})
              => slot'[h] = slot[h]]_vars

\* C15 amended: the slot moves from one of Free and Protect(a) to a
\* different one only by a Writer's set, which stores its argument with or
\* without a block before it; and a get returns only on a load that did
\* not see Blocked, with the state that load decodes to.
C15_ProtectionChangesBySet ==
    [][/\ \A h \in Hazards :
             (/\ slot[h] \notin {BLOCKED, DEAD}
              /\ slot'[h] \notin {BLOCKED, DEAD}
              /\ slot'[h] # slot[h])
                 => \E t \in Threads : \E new \in State :
                        /\ Writer_set(t, h, new)
                        /\ slot'[h] = Hazard_set(new)
       /\ \A t \in Threads :
             (tpc[t] = "get" /\ Hazard_get_step(t) /\ tret'[t] \in State)
                 => /\ slot[top[t]] # BLOCKED
                    /\ tret'[t] = Hazard_get(slot[top[t]])]_vars

\* A get has returned Free, and the slot now holds the address of a later
\* set(Protect(0x1)).
C15_Witness ==
    \E t \in Threads : \E u \in Threads \ {t} : \E h \in Hazards :
        /\ tpc[u] = "run" /\ tret[u] = Free
        /\ lastStore[h].op = "set" /\ lastStore[h].s = Protect(LOW)
        /\ lastStore[h].by = t
        /\ slot[h] = LOW /\ alloc[h] = "live"

\* C16 as claimed: once the debug build's destroy, whose assertion saw Dead,
\* has deallocated a hazard, no thread and no cache holds a Writer to it,
\* and no step stores to its slot any more.
C16_NoWriterAfterDealloc ==
    [][\A h \in Hazards :
          (build = "debug" /\ alloc[h] = "freed")
              => /\ LiveWriters(writers, cache, h, Threads) = 0
                 /\ slot'[h] = slot[h]
                 /\ lastStore'[h] = lastStore[h]]_vars

\* C17: in both builds create, block, is_blocked, set, kill and the
\* Writer's drop are one step of their thread, whatever the slot holds, and
\* destroy is its call, at most SpinBound rounds of the assertion's get (the
\* debug build only; each round counts one spin up, ends the get, or aborts)
\* and the step that deallocates; no step of another thread sets a thread
\* back inside its destroy.
C17_BoundedSteps ==
    [][\A t \in Threads :
          /\ \A h \in Hazards :
                /\ (\/ create(t)
                    \/ Writer_block(t, h)
                    \/ Writer_is_blocked(t, h)
                    \/ Writer_kill(t, h)
                    \/ Writer_drop(t, h)
                    \/ \E new \in State : Writer_set(t, h, new))
                      => (tpc[t] = "run" /\ tpc'[t] = "run")
                /\ Reader_destroy(t, h)
                      => /\ spins'[t] = 0
                         /\ tpc'[t] = IF build = "debug" THEN "destroy" ELSE "free"
          /\ Reader_destroy_assert(t)
                => \/ /\ tpc'[t] = "destroy"
                      /\ spins'[t] = spins[t] + 1
                      /\ spins'[t] < SpinBound
                   \/ tpc'[t] = "free"
                   \/ aborted'
          /\ Reader_destroy_free(t) => tpc'[t] = "run"
          /\ tpc[t] = "destroy"
                => /\ build = "debug"
                   /\ spins[t] < SpinBound
                   /\ tpc'[t] = "destroy" => spins'[t] >= spins[t]
          /\ tpc[t] = "free" => tpc'[t] \in {"free", "run"}]_vars

\* The debug build's destroy has ended on a hazard that stayed Blocked: its
\* get ran into the spin bound and the process aborted.
C17_Witness ==
    \E t \in Threads : \E h \in Hazards :
        /\ build = "debug" /\ tpc[t] = "destroy" /\ top[t] = h
        /\ aborted /\ "spin" \in fatal[h]
        /\ slot[h] = BLOCKED /\ lastStore[h].op = "init"

\* C18: with the get loop scheduled fairly, a pending get leads to its
\* return with a state, unless the slot is Blocked again or the process
\* aborts; and the state a get returns is the one the slot holds at the step
\* that returns, which is not Blocked.
C18_GetReturns ==
    /\ \A t \in Threads : \A h \in Hazards :
          (tpc[t] = "get" /\ top[t] = h)
              ~> \/ (tpc[t] = "run" /\ tret[t] \in State)
                 \/ slot[h] = BLOCKED
                 \/ aborted
    /\ [][\A t \in Threads :
             (tpc[t] = "get" /\ Hazard_get_step(t) /\ tret'[t] \in State)
                 => /\ tpc'[t] = "run"
                    /\ slot[top[t]] # BLOCKED
                    /\ Hazard_set(tret'[t]) = slot[top[t]]]_vars

\* A get that has spun on Blocked is pending, and the Writer has set
\* Protect(0x1) since.
C18_Witness ==
    \E t \in Threads : \E h \in Hazards :
        /\ tpc[t] = "get" /\ top[t] = h /\ spins[t] > 0
        /\ lastStore[h].op = "set" /\ lastStore[h].s = Protect(LOW)
        /\ slot[h] = LOW /\ ~aborted

\* C19: a step that takes a slot out of Blocked is a Writer's set, a kill
\* or a drop by an unwinding thread, and it leaves the encoding of the state
\* it stores; no other step (block, is_blocked, get, the drop of a thread
\* that is not unwinding, destroy) does so.  A set stores the encoding of
\* its argument whatever the slot held.
C19_OnlySetLeavesBlocked ==
    [][\A h \in Hazards :
          /\ (slot[h] = BLOCKED /\ slot'[h] # BLOCKED)
                => /\ \E t \in Threads :
                         \/ \E new \in State : Writer_set(t, h, new)
                         \/ Writer_kill(t, h)
                         \/ (panicking[t] /\ Writer_drop(t, h))
                   /\ lastStore'[h].op \in {"set", "kill", "unwind"}
                   /\ slot'[h] = Hazard_set(lastStore'[h].s)
          /\ \A t \in Threads : \A new \in State :
                Writer_set(t, h, new) => slot'[h] = Hazard_set(new)]_vars

\* A get has spun on the Blocked slot, and a kill has taken the slot out of
\* Blocked since.
C19_Witness ==
    \E t \in Threads : \E u \in Threads \ {t} : \E h \in Hazards :
        /\ tpc[u] = "get" /\ top[u] = h /\ spins[u] > 0
        /\ lastStore[h] = [op |-> "kill", s |-> Dead, by |-> t]
        /\ slot[h] = DEAD /\ alloc[h] = "live"

\* C20: every load of the slot, a round of get or an is_blocked, leaves its
\* thread observing each write the storing thread had made before the store
\* (a block or a set) whose value the load reads; so a thread whose get
\* returns Free or Protect(a) observes every write made before the set that
\* published that state.
C20_Publication ==
    [][\A t \in Threads : \A h \in Hazards :
          /\ (\/ tpc[t] = "get" /\ top[t] = h /\ Hazard_get_step(t)
              \/ Writer_is_blocked(t, h))
                => (lastStore[h].by \in Threads
                        => view'[t][lastStore[h].by] >= msg[h].at)
          /\ (/\ tpc[t] = "get" /\ top[t] = h /\ Hazard_get_step(t)
              /\ tret'[t] \in State /\ tret'[t].tag \in {"Free", "Protect"})
                => /\ lastStore[h].op = "set"
                   /\ Hazard_set(lastStore[h].s) = Hazard_set(tret'[t])
                   /\ view'[t][lastStore[h].by] >= msg[h].at]_vars

\* A get has returned Protect(0x1), which another thread published after a
\* write of its own, and the reading thread observes that write.
C20_Witness ==
    \E t \in Threads : \E w \in Threads \ {t} : \E h \in Hazards :
        /\ tpc[t] = "run" /\ tret[t] = Protect(LOW)
        /\ lastStore[h] = [op |-> "set", s |-> Protect(LOW), by |-> w]
        /\ msg[h].at = MaxWrites
        /\ view[t][w] = MaxWrites

====
